---- MODULE Spec2Model ----
(***************************************************************************)
(* Patras CityBus CLI (citybus.py): the credential resolver, the transit   *)
(* API client, the stop directory cache and the proximity search, with the *)
(* commands main() dispatches.  One action is one call of an operation or  *)
(* one run of a command; the network answers are the inputs of the call.   *)
(***************************************************************************)
EXTENDS Integers, Sequences, FiniteSets, TLC

VARIABLES
    stops_data_file,   \* user_data/stops_data.json: [st, data]
    stop_name_file,    \* user_data/stop_name.json:  [st, data]
    bookmarks_file,    \* user_data/bookmarks.json:  [st, data]
    run                \* the last call or command run: what it did and returned

vars == <<stops_data_file, stop_name_file, bookmarks_file, run>>

(***************************************************************************)
(* Bounds of the model.                                                    *)
(***************************************************************************)
\* longest stop directory the remote service returns in the cache model
MaxStops == 2
\* longest stop directory handed to the proximity search
MaxNearStops == 4

(***************************************************************************)
(* Files.  A file is absent, present with content json.load rejects        *)
(* (truncated, damaged), or present with the JSON value last dumped to it. *)
(***************************************************************************)
AbsentFile == [st |-> "absent", data |-> <<>>]
CorruptFile == [st |-> "corrupt", data |-> <<>>]

\* os.path.exists(path)
exists(file) == file.st # "absent"

\* json.dump(value, f) on a file opened with 'w': the file now holds value
json_dump(value) == [st |-> "ok", data |-> value]

\* json.load(f) raises JSONDecodeError on a damaged file
json_load_raises(file) == file.st = "corrupt"

\* json.load(f): the value dumped
json_load(file) == file.data

(***************************************************************************)
(* The network.  An answer to a GET is a transport failure (any            *)
(* requests.RequestException raised by the call itself) or an HTTP         *)
(* response with a status and a body.                                      *)
(***************************************************************************)
\* (nothing stands for the payload of an answer that carries none)
TransportFailure(nothing) ==
    [kind |-> "transport", status |-> 0, body |-> "none",
     jsonErr |-> "none", payload |-> nothing]

HttpError(status, nothing) ==
    [kind |-> "http", status |-> status, body |-> "none",
     jsonErr |-> "none", payload |-> nothing]

\* a 200 whose body is not JSON; response.json() raises an exception that is
\* a requests.RequestException in requests >= 2.27 and a plain ValueError before
InvalidJson(cls, nothing) ==
    [kind |-> "http", status |-> 200, body |-> "invalid",
     jsonErr |-> cls, payload |-> nothing]

\* an answer whose body is JSON: a 200, or a status below 400 that
\* raise_for_status lets through as well
JsonAnswer(status, payload) ==
    [kind |-> "http", status |-> status, body |-> "json",
     jsonErr |-> "none", payload |-> payload]

JsonResponse(payload) == JsonAnswer(200, payload)

\* response.raise_for_status(): raises HTTPError for 4xx and 5xx
raise_for_status(response) == response.status >= 400 /\ response.status < 600

ErrorStatuses == {401, 404, 500}

Responses(payloads, nothing) ==
    {TransportFailure(nothing)}
    \cup {HttpError(s, nothing) : s \in ErrorStatuses}
    \cup {InvalidJson(c, nothing) : c \in {"RequestException", "ValueError"}}
    \cup {JsonResponse(p) : p \in payloads}

\* a request the program sent, with the answer it got: the GET of the token
\* page (text: the page body), or an authenticated API GET (token: the
\* bearer token of its Authorization header)
TokenEvent(page) ==
    [kind |-> "token", url |-> "MAIN_URL", token |-> <<>>, text |-> page.text,
     answer |-> [kind |-> page.kind, status |-> page.status]]
ApiEvent(url, token, response) ==
    [kind |-> "api", url |-> url, token |-> token, text |-> <<>>,
     answer |-> [kind |-> response.kind, status |-> response.status]]

(***************************************************************************)
(* Credential resolver.  The page text is a sequence of lexemes: the       *)
(* literal "const token = ", a single quote, or a run of other characters. *)
(***************************************************************************)
TransportPage == [kind |-> "transport", status |-> 0, text |-> <<>>]
HttpPage(status, text) == [kind |-> "http", status |-> status, text |-> text]

\* the same pattern with * in place of +: it accepts an empty token
MatchAtStar(text, i) ==
    /\ i + 2 <= Len(text)
    /\ text[i] = "const token = "
    /\ text[i + 1] = "'"
    /\ \E j \in (i + 2)..Len(text) : text[j] = "'"

\* re.search(r"const token = '([^']+)'", text) matches at lexeme i
MatchAt(text, i) ==
    /\ i + 3 <= Len(text)
    /\ text[i] = "const token = "
    /\ text[i + 1] = "'"
    /\ text[i + 2] # "'"
    /\ \E j \in (i + 3)..Len(text) : text[j] = "'"

\* re.search: the leftmost match; group(1) runs to the first closing quote
re_search(text) ==
    LET hits == {i \in 1..Len(text) : MatchAt(text, i)}
    IN  IF hits = {} THEN [found |-> FALSE, group1 |-> <<>>]
        ELSE LET i == CHOOSE h \in hits : \A k \in hits : h <= k
                 j == CHOOSE q \in (i + 2)..Len(text) :
                        /\ text[q] = "'"
                        /\ \A k \in (i + 2)..(q - 1) : text[k] # "'"
             IN  [found |-> TRUE, group1 |-> SubSeq(text, i + 2, j - 1)]

\* get_bearer_token(): the token, or sys.exit(1) after a message
get_bearer_token(page) ==
    LET found(match) ==
            IF match.found
            THEN [st |-> "ok", report |-> "none",
                  token |-> match.group1, events |-> <<TokenEvent(page)>>]
            ELSE [st |-> "exit",
                  report |-> "No Bearer token found in page JavaScript",
                  token |-> <<>>, events |-> <<TokenEvent(page)>>]
    IN  IF page.kind = "transport" \/ raise_for_status(page)
        THEN [st |-> "exit", report |-> "Error getting Bearer token",
              token |-> <<>>, events |-> <<TokenEvent(page)>>]
        ELSE found(re_search(page.text))

PageTexts ==
    { <<>>,
      <<"abc">>,
      <<"const token = ", "'", "'">>,
      <<"const token = ", "'", "abc">>,
      <<"abc", "const token = ", "'", "abc", "'", "abc", "'">> }

Pages == {TransportPage, HttpPage(500, <<>>)} \cup {HttpPage(200, t) : t \in PageTexts}

\* the pages the cache model draws from
CachePages == {TransportPage, HttpPage(200, <<"abc">>),
               HttpPage(200, <<"const token = ", "'", "abc", "'">>)}

(***************************************************************************)
(* Transit API client: scheduled and live times.  A payload is the list of *)
(* trips of the scheduled endpoint or the dict of the live endpoint (its   *)
(* keys, and the list under 'vehicles').                                   *)
(***************************************************************************)
NoTimes == [type |-> "none", keys |-> {}, items |-> <<>>, vehicles |-> <<>>]
TripList(items) == [type |-> "list", keys |-> {}, items |-> items, vehicles |-> <<>>]
LiveDict(keys, vehicles) ==
    [type |-> "dict", keys |-> keys, items |-> <<>>, vehicles |-> vehicles]

Trip == [tripTime |-> "08:00", routeName |-> "R", lineCode |-> "6", stopName |-> "A"]
Vehicle == [departureMins |-> 3, routeName |-> "R", lineCode |-> "6"]

TripPayloads == {TripList(<<>>), TripList(<<Trip>>)}
LivePayloads == {LiveDict({}, <<>>), LiveDict({"error"}, <<>>),
                 LiveDict({"vehicles"}, <<>>), LiveDict({"vehicles"}, <<Vehicle>>)}

TripResponses == Responses(TripPayloads, NoTimes)
LiveResponses == Responses(LivePayloads, NoTimes)

\* what an API operation gives back: st, report, the requests sent, the data
Fetched(st, report, events, ret) ==
    [st |-> st, report |-> report, events |-> events, ret |-> ret]

\* fetch_bus_times() with the 401 branch reporting like any other status
fetch_bus_times_generic(stop, day, page, response) ==
    LET request(t) ==
            LET sent == t.events \o <<ApiEvent("API_URL", t.token, response)>>
            IN  IF t.st # "ok"
                THEN Fetched("exit", t.report, t.events, NoTimes)
                ELSE IF response.kind = "transport" \/ raise_for_status(response)
                THEN Fetched("exit", "Error fetching data", sent, NoTimes)
                ELSE IF response.body = "invalid"
                THEN IF response.jsonErr = "RequestException"
                     THEN Fetched("exit", "Error fetching data", sent, NoTimes)
                     ELSE Fetched("crash", "JSONDecodeError", sent, NoTimes)
                ELSE Fetched("ok", "none", sent, response.payload)
    IN  request(get_bearer_token(page))

\* fetch_bus_times(stop, day)
fetch_bus_times(stop, day, page, response) ==
    LET request(t) ==
            LET sent == t.events \o <<ApiEvent("API_URL", t.token, response)>>
            IN  IF t.st # "ok"
                THEN Fetched("exit", t.report, t.events, NoTimes)
                ELSE IF response.kind = "http" /\ raise_for_status(response)
                THEN IF response.status = 401
                     THEN Fetched("exit", "401 Unauthorized - Token may be expired",
                                  sent, NoTimes)
                     ELSE Fetched("exit", "Error fetching data", sent, NoTimes)
                ELSE IF response.kind = "transport"
                THEN Fetched("exit", "Error fetching data", sent, NoTimes)
                ELSE IF response.body = "invalid"
                THEN IF response.jsonErr = "RequestException"
                     THEN Fetched("exit", "Error fetching data", sent, NoTimes)
                     ELSE Fetched("crash", "JSONDecodeError", sent, NoTimes)
                ELSE Fetched("ok", "none", sent, response.payload)
    IN  request(get_bearer_token(page))

\* fetch_bus_times_live(stop)
fetch_bus_times_live(stop, page, response) ==
    LET request(t) ==
            LET sent == t.events \o <<ApiEvent("LIVE_URL", t.token, response)>>
            IN  IF t.st # "ok"
                THEN Fetched("exit", t.report, t.events, NoTimes)
                ELSE IF response.kind = "transport" \/ raise_for_status(response)
                THEN Fetched("exit", "Error fetching live data", sent, NoTimes)
                ELSE IF response.body = "invalid"
                THEN IF response.jsonErr = "RequestException"
                     THEN Fetched("exit", "Error fetching live data", sent, NoTimes)
                     ELSE Fetched("crash", "JSONDecodeError", sent, NoTimes)
                ELSE Fetched("ok", "none", sent, response.payload)
    IN  request(get_bearer_token(page))

(***************************************************************************)
(* Stop records.  A JSON field is a number, a string or null; a record may *)
(* lack any field.  Coordinates are in hundredths of a degree.             *)
(***************************************************************************)
Num(n) == [t |-> "num", n |-> n, s |-> ""]
Str(s) == [t |-> "str", n |-> 0, s |-> s]
Null == [t |-> "null", n |-> 0, s |-> ""]

StopA == [code |-> 1, name |-> "A", latitude |-> Num(3820), longitude |-> Num(2170)]
StopB == [code |-> 2, name |-> "B", latitude |-> Num(3825), longitude |-> Num(2175)]
StopNoCode == [name |-> "C"]
StopNoName == [code |-> 3]

StopRecords == {StopA, StopB, StopNoCode, StopNoName}

SeqsUpTo(S, n) == UNION {[1..k -> S] : k \in 0..n}

\* the directories the remote service may hold
Directories == SeqsUpTo(StopRecords, MaxStops)

\* the answers of the directory endpoint; one of them a 300 with a JSON body
StopsResponses == Responses(Directories, <<>>) \cup {JsonAnswer(300, <<StopB>>)}

(***************************************************************************)
(* Stop directory cache.                                                   *)
(***************************************************************************)
\* the outcome of a call: st is "ok" (returned), "exit" (sys.exit(1) after
\* printing report) or "crash" (report names the uncaught exception)
Outcome(st, report, events, ret, sf, nf) ==
    [st |-> st, report |-> report, events |-> events, ret |-> ret,
     sf |-> sf, nf |-> nf]

\* fetch_stops_data() saving before it checks the response
fetch_stops_data_early_save(sf, nf, page, response) ==
    LET request(t) ==
            LET sent == t.events \o <<ApiEvent("STOPS_URL", t.token, response)>>
                saved == json_dump(response.payload)
            IN  IF t.st # "ok"
                THEN Outcome("exit", t.report, t.events, <<>>, sf, nf)
                ELSE IF response.kind = "transport" \/ raise_for_status(response)
                THEN Outcome("exit", "Error fetching stops", sent, <<>>, saved, nf)
                ELSE IF response.body = "invalid"
                THEN IF response.jsonErr = "RequestException"
                     THEN Outcome("exit", "Error fetching stops", sent, <<>>, saved, nf)
                     ELSE Outcome("crash", "JSONDecodeError", sent, <<>>, saved, nf)
                ELSE Outcome("ok", "none", sent, response.payload, saved, nf)
    IN  IF exists(sf)
        THEN IF json_load_raises(sf)
             THEN Outcome("crash", "JSONDecodeError", <<>>, <<>>, sf, nf)
             ELSE Outcome("ok", "none", <<>>, json_load(sf), sf, nf)
        ELSE request(get_bearer_token(page))

\* fetch_stops_data(), given the files and the answers the network would give
fetch_stops_data(sf, nf, page, response) ==
    LET request(t) ==
            LET sent == t.events \o <<ApiEvent("STOPS_URL", t.token, response)>>
            IN  IF t.st # "ok"
                THEN Outcome("exit", t.report, t.events, <<>>, sf, nf)
                ELSE IF response.kind = "transport" \/ raise_for_status(response)
                THEN Outcome("exit", "Error fetching stops", sent, <<>>, sf, nf)
                ELSE IF response.body = "invalid"
                THEN IF response.jsonErr = "RequestException"
                     THEN Outcome("exit", "Error fetching stops", sent, <<>>, sf, nf)
                     ELSE Outcome("crash", "JSONDecodeError", sent, <<>>, sf, nf)
                ELSE Outcome("ok", "none", sent, response.payload, json_dump(response.payload), nf)
    IN  IF exists(sf)
        THEN IF json_load_raises(sf)
             THEN Outcome("crash", "JSONDecodeError", <<>>, <<>>, sf, nf)
             ELSE Outcome("ok", "none", <<>>, json_load(sf), sf, nf)
        ELSE request(get_bearer_token(page))

\* {str(stop['code']): stop['name'] for stop in stops}: a later record of the
\* same code overrides an earlier one
stop_map(stops) ==
    [k \in {ToString(stops[i].code) : i \in DOMAIN stops} |->
        LET last == CHOOSE i \in DOMAIN stops :
                      /\ ToString(stops[i].code) = k
                      /\ \A j \in DOMAIN stops :
                            ToString(stops[j].code) = k => j <= i
        IN  stops[last].name]

\* stop['code'] or stop['name'] raises KeyError for some record
stop_map_raises(stops) ==
    \E i \in DOMAIN stops :
        "code" \notin DOMAIN stops[i] \/ "name" \notin DOMAIN stops[i]

\* fetch_stop_to_name_map()
fetch_stop_to_name_map(sf, nf, page, response) ==
    LET project(s) ==
            IF s.st # "ok"
            THEN s
            ELSE IF stop_map_raises(s.ret)
            THEN Outcome("crash", "KeyError", s.events, <<>>, s.sf, nf)
            ELSE Outcome("ok", "none", s.events, stop_map(s.ret), s.sf,
                         json_dump(stop_map(s.ret)))
    IN  IF exists(nf)
        THEN IF json_load_raises(nf)
             THEN Outcome("crash", "JSONDecodeError", <<>>, <<>>, sf, nf)
             ELSE Outcome("ok", "none", <<>>, json_load(nf), sf, nf)
        ELSE project(fetch_stops_data(sf, nf, page, response))

(***************************************************************************)
(* Geospatial proximity search.  Distances are in millimetres, rounded up: *)
(* for a whole number of metres m, d <= m exactly when ceil(1000 d) <=     *)
(* 1000 m, and on the grid below two distances are equal (or ordered) as   *)
(* floats exactly when their millimetre values are.                        *)
(***************************************************************************)
\* haversine_distance(lat1, lon1, lat2, lon2) on the grid of coordinates the
\* model uses, as the function computes it: <<lat1, lon1, lat2, lon2, mm>>
HaversineTable ==
    { <<3820, 2170, 3820, 2170, 0>>,
      <<3820, 2170, 3820, 2175, 4369165>>,
      <<3820, 2170, 3821, 2170, 1111950>>,
      <<3820, 2170, 3821, 2175, 4508150>>,
      <<3820, 2170, 3825, 2170, 5559747>>,
      <<3820, 2170, 3825, 2175, 7070168>>,
      <<3820, 2175, 3820, 2170, 4369165>>,
      <<3820, 2175, 3820, 2175, 0>>,
      <<3820, 2175, 3821, 2170, 4508150>>,
      <<3820, 2175, 3821, 2175, 1111950>>,
      <<3820, 2175, 3825, 2170, 7070168>>,
      <<3820, 2175, 3825, 2175, 5559747>>,
      <<3821, 2170, 3820, 2170, 1111950>>,
      <<3821, 2170, 3820, 2175, 4508150>>,
      <<3821, 2170, 3821, 2170, 0>>,
      <<3821, 2170, 3821, 2175, 4368565>>,
      <<3821, 2170, 3825, 2170, 4447798>>,
      <<3821, 2170, 3825, 2175, 6233520>>,
      <<3821, 2175, 3820, 2170, 4508150>>,
      <<3821, 2175, 3820, 2175, 1111950>>,
      <<3821, 2175, 3821, 2170, 4368565>>,
      <<3821, 2175, 3821, 2175, 0>>,
      <<3821, 2175, 3825, 2170, 6233520>>,
      <<3821, 2175, 3825, 2175, 4447798>>,
      <<3825, 2170, 3820, 2170, 5559747>>,
      <<3825, 2170, 3820, 2175, 7070168>>,
      <<3825, 2170, 3821, 2170, 4447798>>,
      <<3825, 2170, 3821, 2175, 6233520>>,
      <<3825, 2170, 3825, 2170, 0>>,
      <<3825, 2170, 3825, 2175, 4366163>>,
      <<3825, 2175, 3820, 2170, 7070168>>,
      <<3825, 2175, 3820, 2175, 5559747>>,
      <<3825, 2175, 3821, 2170, 6233520>>,
      <<3825, 2175, 3821, 2175, 4447798>>,
      <<3825, 2175, 3825, 2170, 4366163>>,
      <<3825, 2175, 3825, 2175, 0>> }

haversine_distance(lat1, lon1, lat2, lon2) ==
    LET row == CHOOSE r \in HaversineTable :
                 r[1] = lat1 /\ r[2] = lon1 /\ r[3] = lat2 /\ r[4] = lon2
    IN  row[5]

\* float(s) for the strings that spell a number of the grid
NumberStrings == [s \in {"38.21", "21.70"} |-> IF s = "38.21" THEN 3821 ELSE 2170]

\* float(v) raises TypeError for null and ValueError for a string that
\* spells no number
float_raises(v) ==
    \/ v.t = "null"
    \/ v.t = "str" /\ v.s \notin DOMAIN NumberStrings

float(v) == IF v.t = "num" THEN v.n ELSE NumberStrings[v.s]

\* the body of the try in the loop raises KeyError, ValueError or TypeError
coordinates_raise(stop) ==
    \/ "latitude" \notin DOMAIN stop
    \/ float_raises(stop.latitude)
    \/ "longitude" \notin DOMAIN stop
    \/ float_raises(stop.longitude)

stop_distance(stop, user_lat, user_lon) ==
    haversine_distance(user_lat, user_lon, float(stop.latitude), float(stop.longitude))

\* the loop with the except clause leaving the loop (break for continue)
RECURSIVE nearby_loop_break(_, _, _, _)
nearby_loop_break(stops, max_distance_meters, user_lat, user_lon) ==
    IF stops = <<>> THEN <<>>
    ELSE LET stop == Head(stops)
             rest == nearby_loop_break(Tail(stops), max_distance_meters, user_lat, user_lon)
         IN  IF coordinates_raise(stop) THEN <<>>
             ELSE LET distance == stop_distance(stop, user_lat, user_lon)
                  IN  IF distance <= max_distance_meters * 1000
                      THEN <<[stop |-> stop, distance |-> distance]>> \o rest
                      ELSE rest

\* the loop of find_nearby_stops: the (stop, distance) pairs in range, in
\* directory order, the records whose coordinates raise skipped
RECURSIVE nearby_loop(_, _, _, _)
nearby_loop(stops, max_distance_meters, user_lat, user_lon) ==
    IF stops = <<>> THEN <<>>
    ELSE LET stop == Head(stops)
             rest == nearby_loop(Tail(stops), max_distance_meters, user_lat, user_lon)
         IN  IF coordinates_raise(stop) THEN rest
             ELSE LET distance == stop_distance(stop, user_lat, user_lon)
                  IN  IF distance <= max_distance_meters * 1000
                      THEN <<[stop |-> stop, distance |-> distance]>> \o rest
                      ELSE rest

\* x put before the elements of equal key: the sort is no longer stable
RECURSIVE insert_sorted_before(_, _)
insert_sorted_before(sorted, x) ==
    IF sorted = <<>> THEN <<x>>
    ELSE IF Head(sorted).distance < x.distance
         THEN <<Head(sorted)>> \o insert_sorted_before(Tail(sorted), x)
         ELSE <<x>> \o sorted

\* x put into a sorted list after every element whose key is <= its own
RECURSIVE insert_sorted(_, _)
insert_sorted(sorted, x) ==
    IF sorted = <<>> THEN <<x>>
    ELSE IF Head(sorted).distance <= x.distance
         THEN <<Head(sorted)>> \o insert_sorted(Tail(sorted), x)
         ELSE <<x>> \o sorted

\* nearby_stops.sort(key=lambda x: x[1]): list.sort is stable
RECURSIVE sort_by_distance(_)
sort_by_distance(pairs) ==
    IF pairs = <<>> THEN <<>>
    ELSE insert_sorted(sort_by_distance(SubSeq(pairs, 1, Len(pairs) - 1)),
                       pairs[Len(pairs)])

\* the run of termux-location: subprocess.run raises (the program is not
\* installed, the timeout expires), or the program exits with a return code
\* and a stdout that is JSON (data) or not
TermuxRaises == [kind |-> "raises", returncode |-> 0, json |-> FALSE,
                 data |-> [provider |-> "gps"]]
TermuxExit(returncode, json, data) ==
    [kind |-> "exit", returncode |-> returncode, json |-> json, data |-> data]

\* get_user_location() raises: "import json" on line 164 makes json a local
\* name of the function, bound only once that line has run; when
\* subprocess.run raises, matching the exception against the first except
\* clause evaluates json.JSONDecodeError with json unbound, and the
\* UnboundLocalError leaves the function past both handlers
get_user_location_raises(termux) == termux.kind = "raises"

\* get_user_location(): (latitude, longitude) or None
get_user_location(termux) ==
    IF /\ termux.kind = "exit"
       /\ termux.returncode = 0
       /\ termux.json
       /\ "latitude" \in DOMAIN termux.data
       /\ "longitude" \in DOMAIN termux.data
    THEN [none |-> FALSE, lat |-> termux.data.latitude, lon |-> termux.data.longitude]
    ELSE [none |-> TRUE, lat |-> 0, lon |-> 0]

\* find_nearby_stops(max_distance_meters, user_lat, user_lon)
find_nearby_stops(max_distance_meters, user_lat, user_lon, termux, sf, nf, page, response) ==
    LET given == ~(user_lat.t = "null" \/ user_lon.t = "null")
        search(location, s) ==
            IF ~given /\ get_user_location_raises(termux)
            THEN Outcome("crash", "UnboundLocalError", <<>>, <<>>, sf, nf)
            ELSE IF ~given /\ location.none
            THEN Outcome("exit", "Error: Could not determine your location.",
                         <<>>, <<>>, sf, nf)
            ELSE IF s.st # "ok" THEN s
            ELSE Outcome("ok", "none", s.events,
                         sort_by_distance(
                             nearby_loop(s.ret, max_distance_meters,
                                         IF given THEN user_lat.n ELSE location.lat,
                                         IF given THEN user_lon.n ELSE location.lon)),
                         s.sf, s.nf)
    IN  search(get_user_location(termux), fetch_stops_data(sf, nf, page, response))

(***************************************************************************)
(* The record of the last run.                                             *)
(***************************************************************************)
\* args: what the call was given (the stop code; the distance in metres and
\* the origin of a search, with what termux-location answered)
NoArgs == [stop |-> 0, distance |-> 0, lat |-> Null, lon |-> Null,
           termux |-> TermuxRaises]

Run(op, args, o, stops, names, nearby, times) ==
    [op |-> op, args |-> args, st |-> o.st, report |-> o.report,
     events |-> o.events, stops |-> stops, names |-> names,
     nearby |-> nearby, times |-> times]

NoRun == [op |-> "none", args |-> NoArgs, st |-> "ok", report |-> "none",
          events |-> <<>>, stops |-> <<>>, names |-> <<>>, nearby |-> <<>>,
          times |-> NoTimes]

(***************************************************************************)
(* The cache model: calls of the two getters, and what happens to the      *)
(* cache files between runs.                                               *)
(***************************************************************************)
GetDirectory ==
    \E page \in CachePages, response \in StopsResponses :
        LET o == fetch_stops_data(stops_data_file, stop_name_file, page, response)
        IN  /\ stops_data_file' = o.sf
            /\ stop_name_file' = o.nf
            /\ run' = Run("fetch_stops_data", NoArgs, o, o.ret, <<>>, <<>>, NoTimes)
            /\ UNCHANGED bookmarks_file

GetNameMap ==
    \E page \in CachePages, response \in StopsResponses :
        LET o == fetch_stop_to_name_map(stops_data_file, stop_name_file, page, response)
        IN  /\ stops_data_file' = o.sf
            /\ stop_name_file' = o.nf
            /\ run' = Run("fetch_stop_to_name_map", NoArgs, o, <<>>, o.ret, <<>>, NoTimes)
            /\ UNCHANGED bookmarks_file

\* the user deletes a cache file
DeleteStopsData ==
    /\ exists(stops_data_file)
    /\ stops_data_file' = AbsentFile
    /\ run' = NoRun
    /\ UNCHANGED <<stop_name_file, bookmarks_file>>

DeleteStopName ==
    /\ exists(stop_name_file)
    /\ stop_name_file' = AbsentFile
    /\ run' = NoRun
    /\ UNCHANGED <<stops_data_file, bookmarks_file>>

\* a cache file is damaged on disk (a write cut short, an edit by hand)
DamageStopsData ==
    /\ stops_data_file.st = "ok"
    /\ stops_data_file' = CorruptFile
    /\ run' = NoRun
    /\ UNCHANGED <<stop_name_file, bookmarks_file>>

DamageStopName ==
    /\ stop_name_file.st = "ok"
    /\ stop_name_file' = CorruptFile
    /\ run' = NoRun
    /\ UNCHANGED <<stops_data_file, bookmarks_file>>

Init ==
    /\ stops_data_file = AbsentFile
    /\ stop_name_file = AbsentFile
    /\ bookmarks_file = AbsentFile
    /\ run = NoRun

Next ==
    \/ GetDirectory
    \/ GetNameMap
    \/ DeleteStopsData
    \/ DeleteStopName
    \/ DamageStopsData
    \/ DamageStopName

Spec == Init /\ [][Next]_vars

(***************************************************************************)
(* The commands of main().                                                 *)
(***************************************************************************)
\* "not bus_times": an empty list or an empty dict
falsy(bus_times) ==
    \/ bus_times.type = "list" /\ bus_times.items = <<>>
    \/ bus_times.type = "dict" /\ bus_times.keys = {}

\* print_bus_times() without the "if stop_code:" of line 245: the name is
\* looked up for every live table
print_bus_times_named(bus_times, stop_code, sf, nf, page, response) ==
    LET named(m) ==
            IF m.st # "ok" THEN m
            ELSE Outcome("ok", "none", m.events, <<>>, m.sf, m.nf)
    IN  IF falsy(bus_times)
        THEN Outcome("ok", "none", <<>>, <<>>, sf, nf)
        ELSE IF bus_times.type = "dict" /\ "vehicles" \in bus_times.keys
        THEN IF bus_times.vehicles = <<>>
             THEN Outcome("ok", "none", <<>>, <<>>, sf, nf)
             ELSE named(fetch_stop_to_name_map(sf, nf, page, response))
        ELSE IF bus_times.type = "dict"
        THEN Outcome("crash", "KeyError", <<>>, <<>>, sf, nf)
        ELSE Outcome("ok", "none", <<>>, <<>>, sf, nf)

\* print_bus_times(bus_times, stop_code): the live table looks the stop's
\* name up in the name map; the scheduled table indexes bus_times[0]
print_bus_times(bus_times, stop_code, sf, nf, page, response) ==
    LET named(m) ==
            IF m.st # "ok" THEN m
            ELSE Outcome("ok", "none", m.events, <<>>, m.sf, m.nf)
    IN  IF falsy(bus_times)
        THEN Outcome("ok", "none", <<>>, <<>>, sf, nf)
        ELSE IF bus_times.type = "dict" /\ "vehicles" \in bus_times.keys
        THEN IF bus_times.vehicles = <<>> \/ stop_code = 0
             THEN Outcome("ok", "none", <<>>, <<>>, sf, nf)
             ELSE named(fetch_stop_to_name_map(sf, nf, page, response))
        ELSE IF bus_times.type = "dict"
        THEN Outcome("crash", "KeyError", <<>>, <<>>, sf, nf)
        ELSE Outcome("ok", "none", <<>>, <<>>, sf, nf)

\* print_nearby_stops(): stop['code'] and stop['name'] of every entry
print_nearby_stops_raises(nearby) ==
    \E i \in DOMAIN nearby :
        "code" \notin DOMAIN nearby[i].stop \/ "name" \notin DOMAIN nearby[i].stop

\* load_bookmarks(): the list in the file, [] when absent or unreadable
load_bookmarks(bf) ==
    IF exists(bf) /\ ~json_load_raises(bf) THEN json_load(bf) ELSE <<>>

\* add_bookmark(stop_code): the bookmarks file afterwards
add_bookmark(stop_code, bf) ==
    LET bookmarks == load_bookmarks(bf)
    IN  IF \E i \in DOMAIN bookmarks : bookmarks[i] = stop_code
        THEN bf
        ELSE json_dump(Append(bookmarks, stop_code))

\* list_bookmarks(): the names are fetched only when there are bookmarks
list_bookmarks(bf, sf, nf, page, response) ==
    IF load_bookmarks(bf) = <<>>
    THEN Outcome("ok", "none", <<>>, <<>>, sf, nf)
    ELSE fetch_stop_to_name_map(sf, nf, page, response)

\* the directories the remote service may hold in the command model
MainDirectories == {<<>>, <<StopA, StopB>>, <<StopNoCode>>}
MainStopsResponses == Responses(MainDirectories, <<>>)

\* --stop: 0 is falsy in "if stop_code:"
StopArgs == {0, 430}
\* --day
DayArgs == {5}
\* near <distance>
DistanceArgs == {2000}
\* --lat / --lon: absent or given
LatArgs == {Null, Num(3820)}
LonArgs == {Null, Num(2170)}
BookmarkArgs == {1}

Termuxes ==
    {TermuxRaises,
     TermuxExit(1, FALSE, [provider |-> "gps"]),
     TermuxExit(0, FALSE, [provider |-> "gps"]),
     TermuxExit(0, TRUE, [provider |-> "gps"]),
     TermuxExit(0, TRUE, [latitude |-> 3820, longitude |-> 2170])}

\* "if args.live:" is false: fetch_bus_times, then print_bus_times
main_scheduled(stop, day, sf, nf, page, response) ==
    LET show(b, p) ==
            IF b.st # "ok"
            THEN [Outcome(b.st, b.report, b.events, <<>>, sf, nf) EXCEPT !.ret = b.ret]
            ELSE [Outcome(p.st, p.report, b.events \o p.events, <<>>, p.sf, p.nf)
                    EXCEPT !.ret = b.ret]
        fetched(b) == show(b, print_bus_times(b.ret, 0, sf, nf, page, response))
    IN  fetched(fetch_bus_times(stop, day, page, response))

\* "if args.live:": fetch_bus_times_live, then print_bus_times with the
\* stop code; page2 and response2 answer the requests of the name lookup
main_live(stop, sf, nf, page, response, page2, response2) ==
    LET show(b, p) ==
            IF b.st # "ok"
            THEN [Outcome(b.st, b.report, b.events, <<>>, sf, nf) EXCEPT !.ret = b.ret]
            ELSE [Outcome(p.st, p.report, b.events \o p.events, <<>>, p.sf, p.nf)
                    EXCEPT !.ret = b.ret]
        fetched(b) == show(b, print_bus_times(b.ret, stop, sf, nf, page2, response2))
    IN  fetched(fetch_bus_times_live(stop, page, response))

\* the near command: the --lat/--lon check, find_nearby_stops, the table
main_near(distance, lat, lon, termux, sf, nf, page, response) ==
    LET show(f) ==
            IF f.st = "ok" /\ print_nearby_stops_raises(f.ret)
            THEN Outcome("crash", "KeyError", f.events, <<>>, f.sf, f.nf)
            ELSE f
    IN  IF (lat.t = "null") # (lon.t = "null")
        THEN Outcome("exit",
                     "Error: Both --lat and --lon must be provided together, or neither.",
                     <<>>, <<>>, sf, nf)
        ELSE show(find_nearby_stops(distance, lat, lon, termux, sf, nf, page, response))

\* the live run gets as far as the name lookup of print_bus_times
LiveLooksUpName(stop, page, response) ==
    LET looks(b) ==
            /\ b.st = "ok"
            /\ stop # 0
            /\ b.ret.type = "dict"
            /\ "vehicles" \in b.ret.keys
            /\ b.ret.vehicles # <<>>
    IN  looks(fetch_bus_times_live(stop, page, response))

\* main(), default behaviour without --live: lines 524-526
CmdScheduled ==
    \E stop \in StopArgs, day \in DayArgs, page \in Pages, response \in TripResponses :
        LET o == main_scheduled(stop, day, stops_data_file, stop_name_file,
                                page, response)
        IN  /\ stops_data_file' = o.sf
            /\ stop_name_file' = o.nf
            /\ run' = Run("scheduled", [NoArgs EXCEPT !.stop = stop], o, <<>>, <<>>, <<>>, o.ret)
            /\ UNCHANGED bookmarks_file

\* main() with --live: lines 521-523 (the answers to the name lookup are
\* drawn only in the runs that get to it)
CmdLive ==
    \E stop \in StopArgs, page \in Pages, response \in LiveResponses :
        \E page2 \in IF LiveLooksUpName(stop, page, response) THEN Pages ELSE {page},
           response2 \in IF LiveLooksUpName(stop, page, response)
                          THEN MainStopsResponses ELSE {TransportFailure(<<>>)} :
            LET o == main_live(stop, stops_data_file, stop_name_file,
                               page, response, page2, response2)
            IN  /\ stops_data_file' = o.sf
                /\ stop_name_file' = o.nf
                /\ run' = Run("live", [NoArgs EXCEPT !.stop = stop], o,
                              <<>>, <<>>, <<>>, o.ret)
                /\ UNCHANGED bookmarks_file

\* main() with --names: lines 511-518
CmdNames ==
    \E page \in Pages, response \in MainStopsResponses :
        LET o == fetch_stop_to_name_map(stops_data_file, stop_name_file, page, response)
        IN  /\ stops_data_file' = o.sf
            /\ stop_name_file' = o.nf
            /\ run' = Run("names", NoArgs, o, <<>>, o.ret, <<>>, NoTimes)
            /\ UNCHANGED bookmarks_file

\* main() with the near command: lines 496-508 (termux-location is drawn
\* only in the runs that ask for the location)
CmdNear ==
    \E distance \in DistanceArgs, lat \in LatArgs, lon \in LonArgs :
        \E termux \in IF lat.t = "null" /\ lon.t = "null"
                       THEN Termuxes ELSE {TermuxRaises},
           page \in Pages, response \in MainStopsResponses :
            LET o == main_near(distance, lat, lon, termux, stops_data_file,
                               stop_name_file, page, response)
            IN  /\ stops_data_file' = o.sf
                /\ stop_name_file' = o.nf
                /\ run' = Run("near",
                              [stop |-> 0, distance |-> distance, lat |-> lat,
                               lon |-> lon, termux |-> termux],
                              o, <<>>, <<>>, o.ret, NoTimes)
                /\ UNCHANGED bookmarks_file

\* main() with bookmark list (or bookmark alone): lines 485-493
CmdBookmarkList ==
    \E page \in Pages, response \in MainStopsResponses :
        LET o == list_bookmarks(bookmarks_file, stops_data_file, stop_name_file,
                                page, response)
        IN  /\ stops_data_file' = o.sf
            /\ stop_name_file' = o.nf
            /\ run' = Run("bookmark list", NoArgs, o, <<>>, o.ret, <<>>, NoTimes)
            /\ UNCHANGED bookmarks_file

\* main() with bookmark add <stop_code>
CmdBookmarkAdd ==
    \E stop_code \in BookmarkArgs :
        /\ bookmarks_file' = add_bookmark(stop_code, bookmarks_file)
        /\ run' = [NoRun EXCEPT !.op = "bookmark add"]
        /\ UNCHANGED <<stops_data_file, stop_name_file>>

NextMain ==
    \/ CmdScheduled
    \/ CmdLive
    \/ CmdNames
    \/ CmdNear
    \/ CmdBookmarkList
    \/ CmdBookmarkAdd
    \/ DeleteStopsData
    \/ DeleteStopName
    \/ DamageStopsData
    \/ DamageStopName

SpecMain == Init /\ [][NextMain]_vars

(***************************************************************************)
(* The proximity model: find_nearby_stops over a warm cache holding any    *)
(* directory of the records below, for each radius and origin.             *)
(***************************************************************************)
StopC == [code |-> 4, name |-> "C", latitude |-> Num(3821), longitude |-> Num(2170)]
\* the coordinates of StopC given as strings: float() accepts them
StopNumStr == [code |-> 6, name |-> "E", latitude |-> Str("38.21"), longitude |-> Str("21.70")]
StopNoLat == [code |-> 7, name |-> "F", longitude |-> Num(2170)]
StopBadLat == [code |-> 8, name |-> "G", latitude |-> Str("abc"), longitude |-> Num(2170)]
StopNullLon == [code |-> 9, name |-> "H", latitude |-> Num(3820), longitude |-> Null]

NearRecords == {StopA, StopB, StopC, StopNumStr, StopNoLat, StopBadLat, StopNullLon}

NearDirectories == SeqsUpTo(NearRecords, MaxNearStops)

\* radii in metres: StopC is 1111.95 m from StopA, StopB 7070.17 m
MaxDistances == {0, 1111, 1112, 8000}

Origins == {<<3820, 2170>>, <<3825, 2175>>}

InitNear ==
    /\ stops_data_file \in {json_dump(d) : d \in NearDirectories}
    /\ stop_name_file = AbsentFile
    /\ bookmarks_file = AbsentFile
    /\ run = NoRun

FindNearby ==
    \E distance \in MaxDistances, origin \in Origins :
        LET args == [stop |-> 0, distance |-> distance, lat |-> Num(origin[1]),
                     lon |-> Num(origin[2]), termux |-> TermuxRaises]
            o == find_nearby_stops(distance, args.lat, args.lon, TermuxRaises,
                                   stops_data_file, stop_name_file,
                                   TransportPage, TransportFailure(<<>>))
        IN  /\ stops_data_file' = o.sf
            /\ stop_name_file' = o.nf
            /\ run' = Run("find_nearby_stops", args, o, <<>>, <<>>, o.ret, NoTimes)
            /\ UNCHANGED bookmarks_file

NextNear == FindNearby

SpecNear == InitNear /\ [][NextNear]_vars

(***************************************************************************)
(* Properties of the stop directory cache (checked under Spec).            *)
(***************************************************************************)
TokenCount(events) == Cardinality({i \in DOMAIN events : events[i].kind = "token"})
ApiCount(events) == Cardinality({i \in DOMAIN events : events[i].kind = "api"})

\* the step is a call of the directory getter / of the name-map getter
DirectoryCall == run'.op = "fetch_stops_data"
NameMapCall == run'.op = "fetch_stop_to_name_map"

\* C1 as stated: starting with no cache file, a successful first call of the
\* directory getter performs exactly one fetch and leaves BOTH cache files
\* written, and a call right after a successful call performs no request
\* and returns the same data.
C1_Original ==
    [][DirectoryCall =>
        /\ (~exists(stops_data_file) /\ ~exists(stop_name_file) /\ run'.st = "ok"
              => /\ ApiCount(run'.events) = 1
                 /\ stops_data_file'.st = "ok"
                 /\ stop_name_file'.st = "ok")
        /\ (run.op = "fetch_stops_data" /\ run.st = "ok"
              => run'.st = "ok" /\ run'.events = <<>> /\ run'.stops = run.stops)
    ]_vars

\* C2 as stated: a getter that finds its cache file present but unreadable
\* does not end on the read error; it goes on to fetch the directory again
\* (a token resolution at least is made) and returns nothing of the file.
C2_CorruptCacheRefetched ==
    [][/\ (DirectoryCall /\ json_load_raises(stops_data_file)
            => run'.st # "crash" /\ TokenCount(run'.events) >= 1)
       /\ (NameMapCall /\ json_load_raises(stop_name_file)
            => run'.st # "crash" /\ TokenCount(run'.events) >= 1)
    ]_vars

FetchFailureReports ==
    {"Error getting Bearer token", "No Bearer token found in page JavaScript",
     "Error fetching stops"}

\* the last request of the run was not answered with a 2xx status: the token
\* page GET failed or gave no token (no API request follows it), or the API
\* request met a transport failure or a status outside 200..299
LastRequestNot2xx(events) ==
    /\ events # <<>>
    /\ LET last == events[Len(events)]
       IN  \/ last.kind = "token"
           \/ last.answer.kind = "transport"
           \/ last.answer.status < 200
           \/ last.answer.status >= 300

\* C4 as stated: when a getter runs with a cold cache and the directory fetch
\* is not answered with a 2xx status (or the token is not resolved, or the
\* transport fails), the call ends with a failure, returns nothing, and
\* both cache files are what they were.
C4_Original ==
    [][(DirectoryCall \/ NameMapCall) /\ ~exists(stops_data_file)
         /\ LastRequestNot2xx(run'.events)
       => /\ run'.st # "ok"
          /\ run'.stops = <<>> /\ run'.names = <<>>
          /\ stops_data_file' = stops_data_file
          /\ stop_name_file' = stop_name_file
    ]_vars

\* the last request of the run failed: the token page GET (no API request
\* follows it), or the API request by a transport failure or a 4xx/5xx status
LastRequestFailed(events) ==
    /\ events # <<>>
    /\ LET last == events[Len(events)]
       IN  \/ last.kind = "token"
           \/ last.answer.kind = "transport"
           \/ last.answer.status >= 400 /\ last.answer.status < 600

\* C4 (amended): when a getter runs with a cold cache and the directory fetch
\* fails (the token is not resolved, the transport fails, the status is a
\* 4xx or 5xx, the ones raise_for_status rejects), the call ends with
\* sys.exit(1) and a report of the failure, returns nothing, and both cache
\* files are exactly what they were: stops_data.json still absent,
\* stop_name.json untouched.
C4_FetchFailureLeavesCache ==
    [][(DirectoryCall \/ NameMapCall) /\ ~exists(stops_data_file)
         /\ LastRequestFailed(run'.events)
       => /\ run'.st = "exit"
          /\ run'.report \in FetchFailureReports
          /\ run'.stops = <<>> /\ run'.names = <<>>
          /\ stops_data_file' = stops_data_file
          /\ stop_name_file' = stop_name_file
          /\ ~exists(stops_data_file')
    ]_vars

\* a name-map call that sent the directory request, was refused, and left
\* no cache file behind
C4_Witness ==
    /\ run.op = "fetch_stop_to_name_map"
    /\ run.st = "exit"
    /\ run.report = "Error fetching stops"
    /\ ApiCount(run.events) = 1
    /\ run.events[2].answer = [kind |-> "http", status |-> 500]
    /\ ~exists(stops_data_file)
    /\ ~exists(stop_name_file)

\* C5 as stated: a fetched directory in which some record lacks code or name
\* is never persisted: stops_data.json never holds such a directory.
C5_DefectivePayloadNotPersisted ==
    stops_data_file.st = "ok" => ~stop_map_raises(stops_data_file.data)

(***************************************************************************)
(* Properties of the commands (checked under SpecMain).                    *)
(***************************************************************************)
\* C3 as stated: a run of any command resolves the token at most once and
\* sends at most one API request.
C3_Original ==
    TokenCount(run.events) <= 1 /\ ApiCount(run.events) <= 1

\* C3 (amended): in a run of any command every API request comes right
\* after a credential resolution of its own and every credential resolution
\* but a failed last one is followed by its API request; a run of the
\* scheduled, --names, near or bookmark list command makes at most one
\* resolution and one request; a run of the live command makes at most two
\* of each, and makes the second resolution (for the stop directory, after
\* the live request) only when the stop code is not 0, the live answer
\* holds vehicles, and neither stop_name.json nor stops_data.json exists.
C3_RequestsPerCommand ==
    [][LET ev == run'.events
       IN  /\ \A i \in DOMAIN ev :
                /\ ev[i].kind = "api" => i > 1 /\ ev[i - 1].kind = "token"
                /\ ev[i].kind = "token" /\ i < Len(ev) => ev[i + 1].kind = "api"
           /\ TokenCount(ev) <= 2 /\ ApiCount(ev) <= 2
           /\ run'.op # "live" => TokenCount(ev) <= 1 /\ ApiCount(ev) <= 1
           /\ TokenCount(ev) = 2 =>
                /\ run'.op = "live"
                /\ ev[2].url = "LIVE_URL"
                /\ Len(ev) = 4 => ev[4].url = "STOPS_URL"
                /\ run'.args.stop # 0
                /\ run'.times.vehicles # <<>>
                /\ ~exists(stops_data_file)
                /\ ~exists(stop_name_file)
    ]_vars

\* a live run over a cold cache: token, live request, token, directory
\* request, and both cache files written by the name lookup
C3_Witness ==
    /\ run.op = "live"
    /\ run.st = "ok"
    /\ Len(run.events) = 4
    /\ TokenCount(run.events) = 2
    /\ ApiCount(run.events) = 2
    /\ stop_name_file.st = "ok"

\* the page text holds no "const token = '...'" with a non-empty value
LacksPattern(text) ==
    ~\E i, j \in DOMAIN text :
        /\ j > i + 2
        /\ text[i] = "const token = "
        /\ text[i + 1] = "'"
        /\ text[j] = "'"
        /\ \A k \in (i + 2)..(j - 1) : text[k] # "'"

\* token is a quoted value that follows "const token = " in the text
QuotedIn(token, text) ==
    \E i \in DOMAIN text :
        /\ i + 2 + Len(token) <= Len(text)
        /\ text[i] = "const token = "
        /\ text[i + 1] = "'"
        /\ SubSeq(text, i + 2, i + 1 + Len(token)) = token
        /\ text[i + 2 + Len(token)] = "'"

\* C6: when the token page is fetched (a 2xx answer) and holds no token
\* pattern, the run ends there with sys.exit(1) and the token-not-found
\* report: that GET is the last request of the run, so the operation that
\* asked for the token sends no API request; and every API request that is
\* sent carries a non-empty, quote-free token that is quoted in the page
\* fetched just before it.
C6_TokenNotFound ==
    \A i \in DOMAIN run.events :
        LET e == run.events[i]
        IN  /\ (/\ e.kind = "token"
                 /\ e.answer.kind = "http"
                 /\ e.answer.status < 400
                 /\ LacksPattern(e.text))
                => /\ run.st = "exit"
                   /\ run.report = "No Bearer token found in page JavaScript"
                   /\ i = Len(run.events)
            /\ e.kind = "api"
                => /\ e.token # <<>>
                   /\ \A k \in DOMAIN e.token : e.token[k] # "'"
                   /\ i > 1
                   /\ run.events[i - 1].kind = "token"
                   /\ QuotedIn(e.token, run.events[i - 1].text)

\* a scheduled run whose token page reads const token = '' : no token is
\* taken from it and nothing is requested
C6_Witness ==
    /\ run.op = "scheduled"
    /\ run.st = "exit"
    /\ run.report = "No Bearer token found in page JavaScript"
    /\ Len(run.events) = 1
    /\ run.events[1].text = <<"const token = ", "'", "'">>

\* C7: in a scheduled run whose API request was sent, a 401 answer gives
\* the "token may be expired" report and no other failure gives it: any other
\* 4xx/5xx status and a transport failure give the generic report; each of
\* these ends the run with sys.exit(1) and no trip data.
C7_Unauthorized401Distinct ==
    run.op = "scheduled" /\ Len(run.events) = 2 =>
        LET a == run.events[2].answer
            failed == a.kind = "transport" \/ (a.status >= 400 /\ a.status < 600)
        IN  /\ failed => run.st = "exit" /\ run.times = NoTimes
            /\ a.kind = "http" /\ a.status = 401
                 => run.report = "401 Unauthorized - Token may be expired"
            /\ failed /\ ~(a.kind = "http" /\ a.status = 401)
                 => run.report = "Error fetching data"
            /\ run.report = "401 Unauthorized - Token may be expired"
                 => a.kind = "http" /\ a.status = 401

\* a scheduled run answered 401
C7_Witness ==
    /\ run.op = "scheduled"
    /\ Len(run.events) = 2
    /\ run.events[2].answer = [kind |-> "http", status |-> 401]
    /\ run.report = "401 Unauthorized - Token may be expired"
    /\ run.st = "exit"

\* the device gives no location: termux-location cannot be run, fails, or
\* prints something that holds no latitude and longitude
Unavailable(termux) ==
    \/ termux.kind = "raises"
    \/ termux.returncode # 0
    \/ ~termux.json
    \/ "latitude" \notin DOMAIN termux.data
    \/ "longitude" \notin DOMAIN termux.data

\* C10 as stated: a near run given no origin, the device location being
\* unavailable, ends with sys.exit(1) and the location report, returns no
\* stop, and has consulted nothing: no token resolution, no API request,
\* both cache files as they were.
C10_LocationUnavailable ==
    [][(/\ run'.op = "near"
        /\ run'.args.lat.t = "null"
        /\ run'.args.lon.t = "null"
        /\ Unavailable(run'.args.termux))
       => /\ run'.st = "exit"
          /\ run'.report = "Error: Could not determine your location."
          /\ run'.nearby = <<>>
          /\ run'.events = <<>>
          /\ stops_data_file' = stops_data_file
          /\ stop_name_file' = stop_name_file
    ]_vars

\* C11 as stated: whenever both cache files exist (and hold a directory whose
\* records carry code and name), stop_name.json is the code-to-name
\* projection of stops_data.json, whatever getter, search, change of the
\* remote directory or deletion of a cache file came before.
C11_NameFileIsProjection ==
    (/\ stops_data_file.st = "ok"
     /\ stop_name_file.st = "ok"
     /\ ~stop_map_raises(stops_data_file.data))
    => stop_name_file.data = stop_map(stops_data_file.data)

(***************************************************************************)
(* Properties of the proximity search (checked under SpecNear).            *)
(***************************************************************************)
\* the stops of a list of (stop, distance) pairs
StopsOf(pairs) == [i \in DOMAIN pairs |-> pairs[i].stop]

\* the pairs of the list at distance d
AtDistance(pairs, d) ==
    LET at(p) == p.distance = d IN SelectSeq(pairs, at)

\* the records of the directory with usable coordinates at distance d of
\* the origin, in directory order
DirectoryAtDistance(stops, d, lat, lon) ==
    LET at(stop) == ~coordinates_raise(stop) /\ stop_distance(stop, lat, lon) = d
    IN  SelectSeq(stops, at)

\* the records of the directory with usable coordinates
WellFormed(stops) ==
    LET ok(stop) == ~coordinates_raise(stop) IN SelectSeq(stops, ok)

NearbyRun == run.op = "find_nearby_stops" /\ run.st = "ok"

\* C8: every record find_nearby_stops returns lies within max_distance_meters
\* of the origin (the distance it is paired with is its distance from the
\* origin), the result is sorted non-decreasing by distance, and the records
\* at one distance come in their directory order.
C8_NearbyInRangeSortedStable ==
    NearbyRun =>
        LET near == run.nearby
            lat == run.args.lat.n
            lon == run.args.lon.n
        IN  /\ \A i \in DOMAIN near :
                  /\ near[i].distance = stop_distance(near[i].stop, lat, lon)
                  /\ near[i].distance <= run.args.distance * 1000
            /\ \A i, j \in DOMAIN near :
                  i < j => near[i].distance <= near[j].distance
            /\ \A i \in DOMAIN near :
                  StopsOf(AtDistance(near, near[i].distance))
                    = DirectoryAtDistance(stops_data_file.data, near[i].distance, lat, lon)

\* a result holding two different records at one distance in directory
\* order behind a nearer record that came later in the directory, a record
\* out of range left out
C8_Witness ==
    /\ NearbyRun
    /\ stops_data_file.data = <<StopNumStr, StopB, StopC, StopA>>
    /\ run.args.distance = 1112
    /\ StopsOf(run.nearby) = <<StopA, StopNumStr, StopC>>

\* C9: whatever records of the directory have missing or non-numeric
\* coordinates, find_nearby_stops returns normally; its result is the result
\* for the directory with those records removed, it holds one entry for each
\* well-formed record in range, and it is empty when no record is in range.
C9_MalformedRecordsSkipped ==
    run.op = "find_nearby_stops" =>
        LET lat == run.args.lat.n
            lon == run.args.lon.n
            clean == WellFormed(stops_data_file.data)
            inrange == {i \in DOMAIN clean :
                          stop_distance(clean[i], lat, lon) <= run.args.distance * 1000}
        IN  /\ run.st = "ok"
            /\ run.nearby =
                  find_nearby_stops(run.args.distance, run.args.lat, run.args.lon,
                                    TermuxRaises, json_dump(clean), stop_name_file,
                                    TransportPage, TransportFailure(<<>>)).ret
            /\ Len(run.nearby) = Cardinality(inrange)
            /\ \A i \in inrange :
                  \E k \in DOMAIN run.nearby : run.nearby[k].stop = clean[i]
            /\ (inrange = {} => run.nearby = <<>>)

\* malformed records of each kind before and between the records returned
C9_Witness ==
    /\ NearbyRun
    /\ stops_data_file.data = <<StopBadLat, StopC, StopNullLon, StopA>>
    /\ StopsOf(run.nearby) = <<StopA, StopC>>

====
